---- MODULE Spec2Model ----
(***************************************************************************)
(* A model of MapAnalyzer.py (Hanteus/ProjectArena): the room reducer      *)
(* (mergeRooms, removeRooms), the graph builders, the visibility matrix    *)
(* and the placement engine (populateMap).                                 *)
(*                                                                         *)
(* Python lists are sequences indexed from 1; a tile (x, y) of the source  *)
(* (x a row index 0..width-1, y a column index 0..height-1) is the tile    *)
(* map[x + 1][y + 1] of the model.                                         *)
(***************************************************************************)
EXTENDS Integers, Sequences, FiniteSets, TLC

VARIABLES
    pc,           \* position of the program
    rooms,        \* the room list (filesMenu's rooms)
    it,           \* mergeRooms: index of the list iterator of "for room in rooms"
    mergedCount,  \* mergeRooms: merges of the running pass
    calls,        \* completed calls of mergeRooms on this list
    abRooms,      \* the room list as it was loaded, before the reducer ran
    mapFile,      \* the tile grid as readMap loaded it
    map,          \* the tile grid: map[x + 1][y + 1] is the tile (x, y)
    G,            \* the graph a graph builder has returned
    visibilityMap,\* getVisibilityMatrix: visibilityMap
    visMin,       \* getVisibilityMatrix: min
    visMax,       \* getVisibilityMatrix: max
    roomGraph,    \* the rooms and corridors graph (populateMap's roomGraph)
    placedObjects,\* populateMap: placedObjects
    diameter,     \* populateMap: diameter
    degreeFit,    \* populateMap: the four ...DegreeFit dictionaries
    request,      \* populateMap: the counts of spawnPoint, medkit and ammo
    unit,         \* populateMap: units the running loop has placed
    raisedIn      \* the function in which the exception named by pc was raised

reduceVars == <<rooms, it, mergedCount, calls, abRooms, mapFile>>
tileVars == <<map, G, visibilityMap, visMin, visMax>>
popVars == <<roomGraph, placedObjects, diameter, degreeFit, request, unit>>
vars == <<pc, reduceVars, tileVars, popVars, raisedIn>>

----------------------------------------------------------------------------
(* Bounds of the model.                                                    *)

\* Longest genome (number of tokens) read by readAB.
MaxRooms == 3
\* Largest square that is given as an exact partition.
MaxSide == 3
\* Calls of mergeRooms made on one room list.
MaxCalls == 2
\* Most rows (len(map)), columns (len(map[0])) and wall tiles of a tile grid.
MaxRows == 5
MaxCols == 5
MaxWalls == 2
\* Largest k of a list of four k x k rooms tiling a 2k x 2k square.
MaxQuarter == 2

\* Token alphabet of the genomes that are enumerated.
TokenXY == 0..1
TokenSizes == 1..2
TokenLens == {-1, 1}
\* An exact partition is given as a list of one to five rooms.
PartCounts == 1..5
MostParts == CHOOSE k \in PartCounts : \A j \in PartCounts : j <= k

----------------------------------------------------------------------------
(* Sequences.                                                              *)

RemoveAt(s, k) == [n \in 1..(Len(s) - 1) |-> IF n < k THEN s[n] ELSE s[n + 1]]

\* All orderings of a finite set, as sequences.
Orders(S) ==
    {f \in [1..Cardinality(S) -> S] : \A n, m \in 1..Cardinality(S) : n # m => f[n] # f[m]}

\* All sequences over S of length at most n.
SeqsUpTo(S, n) == UNION {[1..k -> S] : k \in 0..n}

\* The elements of a sequence.
Range(s) == {s[k] : k \in DOMAIN s}

\* The subsets of S of at most n elements.
RECURSIVE SubsetsUpTo(_, _)
SubsetsUpTo(S, n) ==
    IF n = 0 THEN {{}}
    ELSE LET smaller == SubsetsUpTo(S, n - 1)
         IN  smaller \cup {t \cup {e} : t \in smaller, e \in S}

\* nx.Graph(): no node, no edge. An edge is the set of its one or two ends.
NoGraph == [node |-> <<>>, edge |-> {}]

\* The rooms and corridors graph before it is built: nodes (data = True) in
\* insertion order as <<id, data>>, and the weight of each edge {a, b}.
NoRoomGraph == [nodes |-> <<>>, edge |-> <<>>]

\* populateMap(map, rooms, ["s", 5], ["h", 4], ["a", 4])
MainRequest == [spawnPoint |-> <<"s", 5>>, medkit |-> <<"h", 4>>, ammo |-> <<"a", 4>>]

\* math.inf, as a number above every count of tiles.
Inf == 1000000

\* The float 0.0 (the floats are described with the numbers of the placement
\* engine).
Zero == [neg |-> FALSE, exp |-> 0, hi |-> 0, lo |-> 0]

----------------------------------------------------------------------------
(* Rooms and the AB genome.                                                *)

Room(ox, oy, ex, ey, c) ==
    [originX |-> ox, originY |-> oy, endX |-> ex, endY |-> ey, isCorridor |-> c]

\* A token <X,Y,SIZE> before the "|" of the genome.
RoomToken(x, y, size) == [x |-> x, y |-> y, n |-> size, corridor |-> FALSE]
\* A token <X,Y,LEN> after the "|" of the genome.
CorridorToken(x, y, len) == [x |-> x, y |-> y, n |-> len, corridor |-> TRUE]

\* The room readAB makes of one token.
ReadToken(t) ==
    IF ~t.corridor
    THEN Room(t.x, t.y, t.x + t.n - 1, t.y + t.n - 1, FALSE)
    ELSE IF t.n > 0
         THEN Room(t.x, t.y, t.x + t.n - 1, t.y + 3 - 1, TRUE)
         ELSE Room(t.x, t.y, t.x + 3 - 1, t.y - t.n - 1, TRUE)

\* readAB: the rooms of a genome, in the order of its tokens.
readAB(genome) == [n \in 1..Len(genome) |-> ReadToken(genome[n])]

----------------------------------------------------------------------------
(* The room reducer: mergeRooms and removeRooms.                           *)

\* Condition (a) without the "+ 1": only a room that overlaps room matches.
HorizontalNextOverlapping(room, nextRoom) ==
    /\ nextRoom.originX > room.originX
    /\ nextRoom.originX <= room.endX
    /\ nextRoom.originY = room.originY
    /\ nextRoom.endY = room.endY
    /\ nextRoom.endY - nextRoom.originY = room.endY - room.originY

\* The generator condition of the first next(...) of mergeRooms (condition a).
HorizontalNext(room, nextRoom) ==
    /\ nextRoom.originX > room.originX
    /\ nextRoom.originX <= room.endX + 1
    /\ nextRoom.originY = room.originY
    /\ nextRoom.endY = room.endY
    /\ nextRoom.endY - nextRoom.originY = room.endY - room.originY

\* The generator condition of the second next(...) of mergeRooms (condition b).
VerticalNext(room, nextRoom) ==
    /\ nextRoom.originY > room.originY
    /\ nextRoom.originY <= room.endY + 1
    /\ nextRoom.originX = room.originX
    /\ nextRoom.endX = room.endX
    /\ nextRoom.endX - nextRoom.originX = room.endX - room.originX

\* next(..., None) over the list indices hits: the first one, 0 for None.
FirstIndex(hits) ==
    IF hits = {} THEN 0 ELSE CHOOSE n \in hits : \A m \in hits : n <= m

\* room.endX = nextRoom.endX; room.endY = nextRoom.endY; rooms.remove(nextRoom)
Absorb(rs, k, n) ==
    RemoveAt([rs EXCEPT ![k].endX = rs[n].endX, ![k].endY = rs[n].endY], n)

\* One iteration of "for room in rooms" on the room at iterator index k.
Visit(rs, k) ==
    LET room == rs[k]
        a == FirstIndex({n \in 1..Len(rs) : HorizontalNext(room, rs[n])})
        b == FirstIndex({n \in 1..Len(rs) : VerticalNext(room, rs[n])})
    IN  IF room.isCorridor THEN [rooms |-> rs, merged |-> 0]
        ELSE IF a # 0 /\ ~rs[a].isCorridor
             THEN [rooms |-> Absorb(rs, k, a), merged |-> 1]
        ELSE IF b # 0 /\ ~rs[b].isCorridor
             THEN [rooms |-> Absorb(rs, k, b), merged |-> 1]
        ELSE [rooms |-> rs, merged |-> 0]

\* The test of removeRooms: r1 contains or equals r2.
Contains(r1, r2) ==
    /\ r1.originX <= r2.originX
    /\ r1.originY <= r2.originY
    /\ r1.endX >= r2.endX
    /\ r1.endY >= r2.endY

\* toBeRemoved without the test "r1 is not r2".
ToBeRemovedWithSelf(rs) ==
    {r2 \in 1..Len(rs) : \E r1 \in 1..Len(rs) : Contains(rs[r1], rs[r2])}

\* The indices of the rooms removeRooms appends to toBeRemoved.
ToBeRemoved(rs) ==
    {r2 \in 1..Len(rs) : \E r1 \in 1..Len(rs) : r1 # r2 /\ Contains(rs[r1], rs[r2])}

\* [r for r in rooms if r not in toBeRemoved], rooms compared by identity.
RECURSIVE KeepIndices(_, _, _)
KeepIndices(rs, drop, n) ==
    IF n > Len(rs) THEN <<>>
    ELSE (IF n \in drop THEN <<>> ELSE <<rs[n]>>) \o KeepIndices(rs, drop, n + 1)

removeRooms(rs) == KeepIndices(rs, ToBeRemoved(rs), 1)

(* Actions of the reducer. *)

\* One iteration of the for loop of mergeRooms; the list iterator moves on by
\* one whatever was removed from the list.
MergeVisit ==
    /\ pc = "mergeRooms"
    /\ it <= Len(rooms)
    /\ rooms' = Visit(rooms, it).rooms
    /\ mergedCount' = mergedCount + Visit(rooms, it).merged
    /\ it' = it + 1
    /\ UNCHANGED <<pc, calls, abRooms, mapFile, tileVars, popVars, raisedIn>>

\* The end of a pass that returns without the recursive call.
MergePassEndNoRecursion ==
    /\ pc = "mergeRooms"
    /\ it > Len(rooms)
    /\ pc' = "merged"
    /\ calls' = calls + 1
    /\ UNCHANGED <<it, mergedCount, rooms, abRooms, mapFile, tileVars, popVars, raisedIn>>

\* The end of a pass: return when nothing was merged, else mergeRooms(rooms).
MergePassEnd ==
    /\ pc = "mergeRooms"
    /\ it > Len(rooms)
    /\ IF mergedCount = 0
       THEN /\ pc' = "merged"
            /\ calls' = calls + 1
            /\ UNCHANGED <<it, mergedCount>>
       ELSE /\ it' = 1
            /\ mergedCount' = 0
            /\ UNCHANGED <<pc, calls>>
    /\ UNCHANGED <<rooms, abRooms, mapFile, tileVars, popVars, raisedIn>>

\* mergeRooms called once more on the list a call has left.
MergeRoomsCall ==
    /\ pc = "merged"
    /\ calls < MaxCalls
    /\ pc' = "mergeRooms"
    /\ it' = 1
    /\ mergedCount' = 0
    /\ UNCHANGED <<rooms, calls, abRooms, mapFile, tileVars, popVars, raisedIn>>

\* rooms = removeRooms(rooms)
RemoveRooms ==
    /\ pc = "merged"
    /\ rooms' = removeRooms(rooms)
    /\ pc' = "refined"
    /\ UNCHANGED <<it, mergedCount, calls, abRooms, mapFile, tileVars, popVars, raisedIn>>

----------------------------------------------------------------------------
(* Room lists given to the reducer.                                        *)

\* The tokens of the enumerated genomes, <0,0,0> before and after the "|"
\* among them.
Tokens ==
    {RoomToken(x, y, n) : x \in TokenXY, y \in TokenXY, n \in TokenSizes}
    \cup {CorridorToken(x, y, n) : x \in TokenXY, y \in TokenXY, n \in TokenLens}
    \cup {RoomToken(0, 0, 0), CorridorToken(0, 0, 0)}

\* The genomes of at most MaxRooms tokens: the room tokens come before the
\* "|" and the corridor tokens after it.
Genomes ==
    {g \in SeqsUpTo(Tokens, MaxRooms) :
        \A i, j \in DOMAIN g : i < j => ~(g[i].corridor /\ ~g[j].corridor)}

Cells(r) == {<<x, y>> : x \in r.originX..r.endX, y \in r.originY..r.endY}

\* The sets of at most k non-corridor rooms that exactly tile the cells free.
RECURSIVE Tilings(_, _)
Tilings(free, k) ==
    IF free = {} THEN {{}}
    ELSE IF k = 0 THEN {}
    ELSE LET c == CHOOSE c \in free : \A d \in free :
                      c[1] < d[1] \/ (c[1] = d[1] /\ c[2] <= d[2])
             fits == {r \in {Room(c[1], c[2], d[1], d[2], FALSE) : d \in free} :
                        /\ r.originX <= r.endX /\ r.originY <= r.endY
                        /\ Cells(r) \subseteq free}
         IN  UNION {{{r} \cup t : t \in Tilings(free \ Cells(r), k - 1)} : r \in fits}

SquareCells(n) == {<<x, y>> : x \in 0..(n - 1), y \in 0..(n - 1)}

\* The exact partitions of an n x n square, n <= MaxSide, as sets of rooms.
Partitions ==
    UNION {{u \in Tilings(SquareCells(n), MostParts) : Cardinality(u) \in PartCounts} :
           n \in 1..MaxSide}

\* The sets of four k x k rooms tiling a 2k x 2k square, k <= MaxQuarter.
Quarters ==
    {{Room(x, y, x + k - 1, y + k - 1, FALSE) : x \in {0, k}, y \in {0, k}} :
     k \in 1..MaxQuarter}

\* The tokens of 2 x 2 rooms set side by side along one row, each overlapping
\* or abutting the next.
RowTokens == {RoomToken(x, 0, 2) : x \in 0..2}

\* The lists of a room, a corridor and a room. readAB appends the corridors
\* after the rooms; mergeRooms takes the list it is given, in whatever order.
CorridorBetween ==
    {<<ReadToken(a), ReadToken(c), ReadToken(b)>> :
        a \in {t \in Tokens : ~t.corridor}, c \in {t \in Tokens : t.corridor},
        b \in {t \in Tokens : ~t.corridor}}

\* The loaded list is read from a genome, or is a partition or four quarters
\* of a square in any list order, or has a corridor between two rooms.
InitReduce ==
    /\ \/ \E g \in Genomes : abRooms = readAB(g)
       \/ \E g \in SeqsUpTo(RowTokens, MaxRooms) : abRooms = readAB(g)
       \/ \E t \in Partitions \cup Quarters : abRooms \in Orders(t)
       \/ abRooms \in CorridorBetween
    /\ rooms = abRooms
    /\ pc = "mergeRooms"
    /\ it = 1
    /\ mergedCount = 0
    /\ calls = 0
    /\ map = <<>>
    /\ mapFile = <<>>
    /\ G = NoGraph
    /\ visibilityMap = <<>>
    /\ visMin = Inf
    /\ visMax = 0
    /\ roomGraph = NoRoomGraph
    /\ placedObjects = <<>>
    /\ diameter = Zero
    /\ degreeFit = <<>>
    /\ request = MainRequest
    /\ unit = 0
    /\ raisedIn = ""

NextReduce == MergeVisit \/ MergePassEnd \/ MergeRoomsCall \/ RemoveRooms

SpecReduce == InitReduce /\ [][NextReduce]_vars

----------------------------------------------------------------------------
(* Properties of the reducer.                                              *)

Min(S) == CHOOSE a \in S : \A b \in S : a <= b
Max(S) == CHOOSE a \in S : \A b \in S : a >= b

\* The bounding box of a non-empty room list.
BoundingBox(rs) ==
    Room(Min({rs[n].originX : n \in 1..Len(rs)}), Min({rs[n].originY : n \in 1..Len(rs)}),
         Max({rs[n].endX : n \in 1..Len(rs)}), Max({rs[n].endY : n \in 1..Len(rs)}), FALSE)

\* The rooms of rs are non-corridor, non-empty rectangles that cover a square
\* with no gap and no overlap.
IsSquarePartition(rs) ==
    /\ Len(rs) >= 1
    /\ \A n \in 1..Len(rs) :
          ~rs[n].isCorridor /\ rs[n].originX <= rs[n].endX /\ rs[n].originY <= rs[n].endY
    /\ LET box == BoundingBox(rs)
       IN  /\ box.endX - box.originX = box.endY - box.originY
           /\ \A n, m \in 1..Len(rs) : n # m => Cells(rs[n]) \cap Cells(rs[m]) = {}
           /\ UNION {Cells(rs[n]) : n \in 1..Len(rs)} = Cells(box)

\* C5 as claimed: a room list that is an exact partition of a square, in any
\* list order, is merged by mergeRooms into the one room that is the square.
C5_PartitionMergesToSquare ==
    (pc = "merged" /\ IsSquarePartition(abRooms)) => rooms = <<BoundingBox(abRooms)>>

\* C5 as amended: a list of at most four rooms that is an exact partition of
\* a square, in any list order, is merged by mergeRooms into the one room that
\* is the square.
C5_SmallPartitionMergesToSquare ==
    (pc = "merged" /\ IsSquarePartition(abRooms) /\ Len(abRooms) <= 4)
        => rooms = <<BoundingBox(abRooms)>>

\* Four 2 x 2 rooms tiling a 4 x 4 square have become one 4 x 4 room.
C5_Witness ==
    /\ pc = "merged"
    /\ IsSquarePartition(abRooms)
    /\ Len(abRooms) = 4
    /\ \A n \in 1..4 : abRooms[n].endX - abRooms[n].originX = 1
                        /\ abRooms[n].endY - abRooms[n].originY = 1
    /\ rooms = <<Room(0, 0, 3, 3, FALSE)>>

\* C6: a call of mergeRooms on the list an earlier call has left performs no
\* merge and leaves the list, its rooms and their order unchanged.
C6_MergeIdempotent ==
    [][(calls >= 1 /\ pc = "mergeRooms") => (rooms' = rooms /\ mergedCount' = 0)]_vars

\* A second call has returned on a list the first call had shortened.
C6_Witness == pc = "merged" /\ calls = 2 /\ Len(rooms) < Len(abRooms)

\* The rooms of rs that no distinct room of rs contains or equals.
Uncontained(rs) ==
    {r2 \in 1..Len(rs) : ~\E r1 \in 1..Len(rs) :
        /\ r1 # r2
        /\ rs[r1].originX <= rs[r2].originX /\ rs[r1].originY <= rs[r2].originY
        /\ rs[r1].endX >= rs[r2].endX /\ rs[r1].endY >= rs[r2].endY}

\* s holds exactly the rooms of rs at the indices keep, in the order of rs.
IsSubsequenceAt(s, rs, keep) ==
    /\ Len(s) = Cardinality(keep)
    /\ \A n \in keep : s[Cardinality({m \in keep : m <= n})] = rs[n]

\* C7: removeRooms returns, in list order, exactly the rooms that no distinct
\* room of the list contains or equals, whatever their corridor flags.
C7_RemoveRoomsKeepsUncontained ==
    [][(pc = "merged" /\ pc' = "refined")
          => IsSubsequenceAt(rooms', rooms, Uncontained(rooms))]_vars

\* Of three loaded corridors, two with the same rectangle, only the third is
\* left by removeRooms.
C7_Witness ==
    /\ pc = "refined"
    /\ Len(abRooms) = 3
    /\ \A n \in 1..3 : abRooms[n].isCorridor
    /\ \E n, m \in 1..3 : n # m /\ abRooms[n] = abRooms[m]
    /\ Len(rooms) = 1

\* C13: every room has originX <= endX and originY <= endY, as readAB makes
\* it of a token with X, Y, SIZE any non-negative integers, 0 among them, and
\* LEN any signed integer, 0 among them, and after mergeRooms and removeRooms.
C13_OriginNotAfterEnd ==
    \A n \in 1..Len(rooms) :
        rooms[n].originX <= rooms[n].endX /\ rooms[n].originY <= rooms[n].endY

\* The non-corridor rooms of rs that satisfy condition (a) for the room rs[k].
RightOf(rs, k) ==
    {n \in 1..Len(rs) :
        /\ ~rs[n].isCorridor
        /\ rs[k].originX < rs[n].originX /\ rs[n].originX <= rs[k].endX + 1
        /\ rs[n].originY = rs[k].originY /\ rs[n].endY = rs[k].endY}

\* The non-corridor rooms of rs that satisfy condition (b) for the room rs[k].
Below(rs, k) ==
    {n \in 1..Len(rs) :
        /\ ~rs[n].isCorridor
        /\ rs[k].originY < rs[n].originY /\ rs[n].originY <= rs[k].endY + 1
        /\ rs[n].originX = rs[k].originX /\ rs[n].endX = rs[k].endX}

\* The corridors of a room list, in list order.
Corridors(rs) == SelectSeq(rs, LAMBDA r : r.isCorridor)

Covered(rs) == UNION {Cells(rs[n]) : n \in {m \in 1..Len(rs) : ~rs[m].isCorridor}}

\* C18: a merge of mergeRooms never loses covered area: every tile that some
\* non-corridor room covers before a step of the merge scan is covered by some
\* non-corridor room after it, also when the room that is absorbed lies inside
\* the extent of a room that an earlier merge has extended.
C18_MergeKeepsCoveredArea ==
    [][pc = "mergeRooms" => Covered(rooms) \subseteq Covered(rooms')]_vars

----------------------------------------------------------------------------
(* The tile grid, the tile graph and the visibility matrix.                *)

Width(m) == Len(m)
Height(m) == Len(m[1])

\* The place of the index i in a list of n items: a negative index counts
\* from the end of the list.
Index(i, n) == IF i < 0 THEN i + n + 1 ELSE i + 1

\* The list of n items has the index i; otherwise the subscription raises
\* IndexError.
HasIndex(i, n) == -n <= i /\ i < n

\* map[x][y]
Tile(m, x, y) == m[Index(x, Width(m))][Index(y, Height(m))]

\* The tiles (x, y) of the grid, and those that are not walls.
Tiles(m) == {<<x, y>> : x \in 0..(Width(m) - 1), y \in 0..(Height(m) - 1)}
OpenTiles(m) == {t \in Tiles(m) : Tile(m, t[1], t[2]) # "w"}

\* range(a, b) if a < b else range(b, a)
Between(a, b) == IF a < b THEN a..(b - 1) ELSE b..(a - 1)

Abs(a) == IF a < 0 THEN -a ELSE a

\* int(n / d) for an exact quotient n / d that is not negative.
Truncate(n, d) == IF d < 0 THEN (-n) \div (-d) ELSE n \div d

\* The operands <<x1, y1, x2, y2, t>>, in grids of up to 6 x 6 tiles, for which
\* the double-precision value of c + m * t (or of t / m - c / m) falls just
\* below the whole number that the exact value is, so that int() gives one less.
RoundsBelow ==
    {<<1, 4, 4, 3, 1>>, <<2, 1, 5, 0, 2>>, <<2, 2, 5, 0, 2>>, <<3, 4, 4, 1, 1>>,
     <<4, 1, 1, 2, 1>>, <<4, 1, 3, 4, 1>>, <<4, 2, 1, 3, 1>>, <<4, 2, 1, 4, 1>>,
     <<4, 3, 1, 4, 1>>, <<4, 3, 1, 5, 1>>, <<4, 4, 1, 0, 0>>, <<4, 5, 1, 1, 1>>,
     <<5, 0, 2, 1, 2>>, <<5, 0, 2, 2, 2>>, <<5, 3, 2, 4, 2>>, <<5, 4, 2, 0, 0>>,
     <<5, 4, 2, 5, 2>>, <<5, 5, 2, 1, 1>>}

\* int(c + m * x) with m = dy / dx and c = y1 - m * x1, in double precision.
SampleY(x1, y1, x2, y2, x) ==
    Truncate(y1 * (x2 - x1) + (y2 - y1) * (x - x1), x2 - x1)
        - (IF <<x1, y1, x2, y2, x>> \in RoundsBelow THEN 1 ELSE 0)

\* int(y / m - c / m) with m = dy / dx and c = y1 - m * x1, in double precision.
SampleX(x1, y1, x2, y2, y) ==
    Truncate((y - y1) * (x2 - x1) + x1 * (y2 - y1), y2 - y1)
        - (IF <<x1, y1, x2, y2, y>> \in RoundsBelow THEN 1 ELSE 0)

\* Tells if a tile is visible from another tile.
isTileVisible(x1, y1, x2, y2, m) ==
    LET dy == y2 - y1
        dx == x2 - x1
    IN  IF dx = 0 THEN \A y \in Between(y1, y2) : Tile(m, x1, y) # "w"
        ELSE IF dy = 0 THEN \A x \in Between(x1, x2) : Tile(m, x, y1) # "w"
        ELSE IF Abs(dx) > Abs(dy)
             THEN \A x \in Between(x1, x2) : Tile(m, x, SampleY(x1, y1, x2, y2, x)) # "w"
        ELSE \A y \in Between(y1, y2) : Tile(m, SampleX(x1, y1, x2, y2, y), y) # "w"

\* Converts from subscript to linear index.
subToInd(width, rows, cols) == rows * width + cols

\* The node loop of getTileGraph: add_node per open tile in scan order; a
\* later add_node of the same index overwrites the attributes.
TileNodes(m) ==
    LET ids == {subToInd(Width(m), t[1], t[2]) : t \in OpenTiles(m)}
        last(id) == CHOOSE t \in OpenTiles(m) :
                      /\ subToInd(Width(m), t[1], t[2]) = id
                      /\ \A u \in OpenTiles(m) :
                            subToInd(Width(m), u[1], u[2]) = id => u[1] <= t[1]
    IN  [id \in ids |-> [x |-> last(id)[1], y |-> last(id)[2],
                         char |-> Tile(m, last(id)[1], last(id)[2])]]

\* The edge loop of getTileGraph: for every (x, y) whose index is a node, an
\* edge to each of the four indices that is a node.
TileEdges(m) ==
    LET w == Width(m)
        ids == DOMAIN TileNodes(m)
    IN  {{subToInd(w, t[1] + d[1], t[2] + d[2]), subToInd(w, t[1], t[2])} :
            t \in {u \in Tiles(m) : subToInd(w, u[1], u[2]) \in ids},
            d \in {<<1, 0>>, <<1, 1>>, <<0, 1>>, <<-1, 1>>}}
        \cap {{a, b} : a \in ids, b \in ids}

getTileGraph(m) == [node |-> TileNodes(m), edge |-> TileEdges(m)]

\* The tiles of the grid in the order of "for x ...: for y ...".
ScanOrder(m) ==
    [k \in 1..(Width(m) * Height(m)) |-> <<(k - 1) \div Height(m), (k - 1) % Height(m)>>]

\* The count getVisibilityMatrix makes for the open tile (x1, y1).
VisibleCount(m, x1, y1) ==
    Cardinality({t \in OpenTiles(m) :
        /\ t[1] >= x1
        /\ (x1 # t[1] \/ y1 # t[2])
        /\ isTileVisible(x1, y1, t[1], t[2], m)})

\* visibilityMap after the first loop of getVisibilityMatrix.
RawVisibility(m) ==
    [x \in 1..Width(m) |-> [y \in 1..Height(m) |->
        IF m[x][y] # "w" THEN VisibleCount(m, x - 1, y - 1) ELSE 0]]

\* min and max after the first k tiles of the scan: max is raised by a count
\* above it, min is lowered only by a count that did not raise max.
RECURSIVE MinMaxAfter(_, _, _)
MinMaxAfter(m, raw, k) ==
    IF k = 0 THEN [min |-> Inf, max |-> 0]
    ELSE LET before == MinMaxAfter(m, raw, k - 1)
             t == ScanOrder(m)[k]
             visibility == raw[t[1] + 1][t[2] + 1]
         IN  IF Tile(m, t[1], t[2]) = "w" THEN before
             ELSE IF visibility > before.max THEN [before EXCEPT !.max = visibility]
             ELSE IF visibility < before.min
                  THEN [before EXCEPT !.min = visibility]
             ELSE before

\* float("nan") as the quotient 0 / 0.
NaN == <<0, 0>>

\* (count - min) / reboundMax: not a number when min is still math.inf, else
\* the exact quotient as <<numerator, denominator>>, the denominator positive.
Rebound(count, mn, mx) ==
    IF mn = Inf THEN NaN
    ELSE IF mx - mn > 0 THEN <<count - mn, mx - mn>>
    ELSE <<mn - count, mn - mx>>

(* Actions on the tile grid. *)

\* G = getTileGraph(map)
GetTileGraph ==
    /\ pc = "menu"
    /\ G' = getTileGraph(map)
    /\ pc' = "tileGraph"
    /\ UNCHANGED <<map, visibilityMap, visMin, visMax, reduceVars, popVars, raisedIn>>

\* The first loop of getVisibilityMatrix: the counts, min and max.
CountVisibility ==
    /\ pc = "menu"
    /\ visibilityMap' = RawVisibility(map)
    /\ LET mm == MinMaxAfter(map, RawVisibility(map), Width(map) * Height(map))
       IN  visMin' = mm.min /\ visMax' = mm.max
    /\ pc' = "counted"
    /\ UNCHANGED <<map, G, reduceVars, popVars, raisedIn>>

\* The second loop of getVisibilityMatrix: every cell is rebounded, or the
\* division by reboundMax = 0 raises ZeroDivisionError.
NormalizeVisibility ==
    /\ pc = "counted"
    /\ IF visMin # Inf /\ visMax - visMin = 0
       THEN /\ pc' = "ZeroDivisionError"
            /\ raisedIn' = "getVisibilityMatrix"
            /\ UNCHANGED visibilityMap
       ELSE /\ pc' = "visibilityMatrix"
            /\ UNCHANGED raisedIn
            /\ visibilityMap' =
                 [x \in 1..Width(map) |-> [y \in 1..Height(map) |->
                     Rebound(visibilityMap[x][y], visMin, visMax)]]
    /\ UNCHANGED <<map, G, visMin, visMax, reduceVars, popVars>>

\* The grids of at most MaxRows x MaxCols tiles with at most MaxWalls walls.
Grid(w, h, walls) ==
    [x \in 1..w |-> [y \in 1..h |-> IF <<x - 1, y - 1>> \in walls THEN "w" ELSE "r"]]

InitTiles ==
    /\ \E w \in 1..MaxRows, h \in 1..MaxCols :
         \E walls \in SubsetsUpTo({<<x, y>> : x \in 0..(w - 1), y \in 0..(h - 1)}, MaxWalls) :
            map = Grid(w, h, walls)
    /\ mapFile = map
    /\ pc = "menu"
    /\ G = NoGraph
    /\ visibilityMap = <<>>
    /\ visMin = Inf
    /\ visMax = 0
    /\ roomGraph = NoRoomGraph
    /\ placedObjects = <<>>
    /\ diameter = Zero
    /\ degreeFit = <<>>
    /\ request = MainRequest
    /\ unit = 0
    /\ raisedIn = ""
    /\ rooms = <<>>
    /\ abRooms = <<>>
    /\ it = 1
    /\ mergedCount = 0
    /\ calls = 0

NextTiles == GetTileGraph \/ CountVisibility \/ NormalizeVisibility

SpecTiles == InitTiles /\ [][NextTiles]_vars

(* Properties of the tile grid. *)

\* The other open tiles that are visible from t, wherever they lie.
VisibleFrom(m, t) ==
    {u \in OpenTiles(m) : u # t /\ isTileVisible(t[1], t[2], u[1], u[2], m)}

\* C2: the raw count that getVisibilityMatrix computes for an open tile t is
\* the number of all other open tiles u of the grid, in a row before or after
\* t, for which isTileVisible(t, u) holds.
C2_RawCountIsAllVisibleTiles ==
    pc = "counted" =>
        \A t \in OpenTiles(map) :
            visibilityMap[t[1] + 1][t[2] + 1] = Cardinality(VisibleFrom(map, t))

\* The raw counts of the open tiles of the grid, as getVisibilityMatrix makes them.
RawCounts(m) == {RawVisibility(m)[t[1] + 1][t[2] + 1] : t \in OpenTiles(m)}

\* C3: when getVisibilityMatrix returns, the value of every open tile lies in
\* [0, 1], an open tile with the greatest raw count has 1 and an open tile
\* with the least raw count has 0.
C3_NormalizedWithinUnitInterval ==
    pc = "visibilityMatrix" =>
        \A t \in OpenTiles(map) :
            LET v == visibilityMap[t[1] + 1][t[2] + 1]
                raw == RawVisibility(map)[t[1] + 1][t[2] + 1]
            IN  /\ v[2] > 0
                /\ 0 <= v[1] /\ v[1] <= v[2]
                /\ raw = Max(RawCounts(map)) => v[1] = v[2]
                /\ raw = Min(RawCounts(map)) => v[1] = 0

\* C4: for every grid and every two distinct open tiles p and q,
\* isTileVisible(p, q) is isTileVisible(q, p).
C4_VisibilitySymmetric ==
    \A p \in OpenTiles(map), q \in OpenTiles(map) :
        p # q => (isTileVisible(p[1], p[2], q[1], q[2], map)
                    <=> isTileVisible(q[1], q[2], p[1], p[2], map))

\* Two distinct tiles that differ by at most 1 in each coordinate.
KingNeighbours(t, u) == t # u /\ Abs(t[1] - u[1]) <= 1 /\ Abs(t[2] - u[2]) <= 1

\* The tile a node of the tile graph carries.
TileOf(n) == <<G.node[n].x, G.node[n].y>>

\* C9: the tile graph has exactly one node per open tile, and two nodes are
\* joined by an edge if and only if their tiles are king-move neighbours.
C9_TileGraphIsKingAdjacency ==
    pc = "tileGraph" =>
        /\ Cardinality(DOMAIN G.node) = Cardinality(OpenTiles(map))
        /\ {TileOf(n) : n \in DOMAIN G.node} = OpenTiles(map)
        /\ G.edge = {{a, b} : a \in DOMAIN G.node, b \in DOMAIN G.node}
                        \cap {e \in SUBSET (DOMAIN G.node) :
                                \E a \in e, b \in e : e = {a, b} /\ KingNeighbours(TileOf(a), TileOf(b))}

\* C17: node identifiers are unique per tile: on a grid of R rows and C
\* columns, C > R included, subToInd(R, x, y) gives different values for
\* different tiles of the grid, so the tile graph has one node per open tile.
C17_NodeIdsUniquePerTile ==
    /\ \A t \in Tiles(map), u \in Tiles(map) :
          t # u => subToInd(Width(map), t[1], t[2]) # subToInd(Width(map), u[1], u[2])
    /\ pc = "tileGraph" => Cardinality(DOMAIN G.node) = Cardinality(OpenTiles(map))

----------------------------------------------------------------------------
(* Numbers of the placement engine. A float of the source is a binary64    *)
(* number: [neg, exp, hi, lo] is (-1)^neg * (hi * Limb + lo) * 2^exp, with  *)
(* hi * Limb + lo a whole number of 53 bits, or 0.0 with all fields zero.   *)
(* Every operation gives the float nearest to the exact result, ties to the *)
(* even one. The magnitudes of the program stay far from the ends of the    *)
(* exponent range. Whole numbers of up to 58 bits are pairs <<hi, lo>> with *)
(* value hi * Limb + lo.                                                    *)

Limb == 2^28

\* The number of bits of a natural number.
RECURSIVE Bits(_)
Bits(n) == IF n = 0 THEN 0 ELSE 1 + Bits(n \div 2)

WBits(w) == IF w[1] > 0 THEN 28 + Bits(w[1]) ELSE Bits(w[2])

WLess(a, b) == a[1] < b[1] \/ (a[1] = b[1] /\ a[2] < b[2])

WAdd(a, b) ==
    LET lo == a[2] + b[2]
    IN  <<a[1] + b[1] + (lo \div Limb), lo % Limb>>

\* a - b for a >= b
WSub(a, b) ==
    LET lo == a[2] - b[2]
    IN  IF lo < 0 THEN <<a[1] - b[1] - 1, lo + Limb>> ELSE <<a[1] - b[1], lo>>

\* w * 2^k, for a product below 2^58
WShl(w, k) ==
    IF k = 0 THEN w
    ELSE IF k < 28
    THEN <<w[1] * 2^k + (w[2] \div 2^(28 - k)), (w[2] % 2^(28 - k)) * 2^k>>
    ELSE <<w[2] * 2^(k - 28), 0>>

\* w \div 2^k
WShr(w, k) ==
    IF k = 0 THEN w
    ELSE IF k < 28
    THEN <<w[1] \div 2^k, (w[1] % 2^k) * 2^(28 - k) + (w[2] \div 2^k)>>
    ELSE IF k < 56 THEN <<0, w[1] \div 2^(k - 28)>>
    ELSE <<0, 0>>

\* w % 2^k # 0
WLost(w, k) ==
    IF k = 0 THEN FALSE
    ELSE IF k < 28 THEN w[2] % 2^k # 0
    ELSE IF k < 56 THEN w[2] # 0 \/ w[1] % 2^(k - 28) # 0
    ELSE w # <<0, 0>>

\* float("nan")
NotANumber == [neg |-> FALSE, exp |-> 1024, hi |-> 2^24, lo |-> 1]

\* math.inf
Infinity == [neg |-> FALSE, exp |-> 1024, hi |-> 2^24, lo |-> 0]

IsZero(a) == a.hi = 0 /\ a.lo = 0

IsNaN(a) == a.exp = 1024 /\ a.lo = 1

\* The float of sign neg and mantissa m of 53 bits, or of 54 bits when the
\* rounding has carried, times 2^e.
Carry(neg, m, e) ==
    IF m[1] = 2^25 THEN [neg |-> neg, exp |-> e + 1, hi |-> 2^24, lo |-> 0]
    ELSE [neg |-> neg, exp |-> e, hi |-> m[1], lo |-> m[2]]

\* Round for a whole number w of b bits, b > 53: the 53 leading bits, one
\* more when what is cut off is above half a unit, or is half a unit and the
\* exact number is above w or the last bit kept is odd.
RoundOff(neg, w, e, inexact, k, q) ==
    LET rest == w[2] % 2^k
        half == 2^(k - 1)
    IN  Carry(neg,
              IF rest > half \/ (rest = half /\ (inexact \/ q[2] % 2 = 1))
              THEN WAdd(q, <<0, 1>>) ELSE q,
              e + k)

\* Round for a whole number w of b bits.
RoundBits(neg, w, e, inexact, b) ==
    IF b = 0 THEN Zero
    ELSE IF b <= 53
    THEN Carry(neg, WShl(w, 53 - b), e - (53 - b))
    ELSE RoundOff(neg, w, e, inexact, b - 53, WShr(w, b - 53))

\* The float nearest to w * 2^e, or to a number between w * 2^e and
\* (w + 1) * 2^e when inexact.
Round(neg, w, e, inexact) == RoundBits(neg, w, e, inexact, WBits(w))

\* float(n) of an integer n
FromInt(n) == Round(n < 0, <<0, IF n < 0 THEN -n ELSE n>>, 0, FALSE)

\* 1.0
One == FromInt(1)

\* w with its last bit set when bits were lost below it.
Jam(w, lost) == IF lost /\ w[2] % 2 = 0 THEN <<w[1], w[2] + 1>> ELSE w

\* a + b for a.exp >= b.exp, neither zero, from the mantissas wa and wb of
\* the two numbers in units of 2^(a.exp - 3).
AddAligned(a, b, wa, wb) ==
    Round(IF a.neg = b.neg \/ WLess(wb, wa) THEN a.neg ELSE b.neg,
          IF a.neg = b.neg THEN WAdd(wa, wb)
          ELSE IF WLess(wb, wa) THEN WSub(wa, wb) ELSE WSub(wb, wa),
          a.exp - 3, FALSE)

\* a + b for a.exp >= b.exp, neither zero: b is shifted to the exponent of a,
\* with three more bits and the bits lost below them remembered in the last.
FAddOrdered(a, b) ==
    AddAligned(a, b, WShl(<<a.hi, a.lo>>, 3),
               Jam(WShr(WShl(<<b.hi, b.lo>>, 3), a.exp - b.exp),
                   WLost(WShl(<<b.hi, b.lo>>, 3), a.exp - b.exp)))

\* a + b
FAdd(a, b) ==
    IF IsNaN(a) \/ IsNaN(b) THEN NotANumber
    ELSE IF IsZero(a) THEN b
    ELSE IF IsZero(b) THEN a
    ELSE FAddOrdered(IF a.exp >= b.exp THEN a ELSE b, IF a.exp >= b.exp THEN b ELSE a)

\* -a
FNeg(a) == IF IsZero(a) \/ IsNaN(a) THEN a ELSE [a EXCEPT !.neg = ~@]

\* abs(a)
FAbs(a) == [a EXCEPT !.neg = FALSE]

\* a - b
FSub(a, b) == FAdd(a, FNeg(b))

\* a * 2^k
FScale(a, k) == IF IsZero(a) \/ IsNaN(a) THEN a ELSE [a EXCEPT !.exp = @ + k]

\* n steps of the long division of r by d, r < 2 d: the quotient bits added
\* to q and the remainder.
RECURSIVE DivSteps(_, _, _, _)
DivSteps(r, d, q, n) ==
    IF n = 0 THEN <<q, r>>
    ELSE IF WLess(r, d) THEN DivSteps(WShl(r, 1), d, 2 * q, n - 1)
    ELSE DivSteps(WShl(WSub(r, d), 1), d, 2 * q + 1, n - 1)

\* a / b for b not zero
FDiv(a, b) ==
    LET d == <<b.hi, b.lo>>
        high == DivSteps(<<a.hi, a.lo>>, d, 0, 28)
        low == DivSteps(high[2], d, 0, 28)
    IN  IF IsNaN(a) \/ IsNaN(b) THEN NotANumber
        ELSE IF IsZero(a) THEN Zero
        ELSE Round(a.neg # b.neg, <<high[1], low[1]>>, a.exp - b.exp - 55, low[2] # <<0, 0>>)

\* a < b
FLess(a, b) ==
    LET smaller == a.exp < b.exp \/ (a.exp = b.exp /\ WLess(<<a.hi, a.lo>>, <<b.hi, b.lo>>))
    IN  IF IsNaN(a) \/ IsNaN(b) THEN FALSE
        ELSE IF IsZero(a) THEN ~IsZero(b) /\ ~b.neg
        ELSE IF IsZero(b) THEN a.neg
        ELSE IF a.neg # b.neg THEN a.neg
        ELSE IF a.neg THEN ~smaller /\ a # b
        ELSE smaller

\* min(S) and max(S) of a set of floats
FMin(S) == CHOOSE a \in S : \A b \in S : ~FLess(b, a)
FMax(S) == CHOOSE a \in S : \A b \in S : ~FLess(a, b)

\* The greatest r in lo..hi with r * r <= n.
RECURSIVE SqrtBetween(_, _, _)
SqrtBetween(n, lo, hi) ==
    IF lo = hi THEN lo
    ELSE LET mid == (lo + hi + 1) \div 2
         IN  IF mid * mid <= n THEN SqrtBetween(n, mid, hi)
             ELSE SqrtBetween(n, lo, mid - 1)

\* n more bits of a square root: the root so far and what is left of the
\* number under it.
RECURSIVE SqrtSteps(_, _, _)
SqrtSteps(root, left, n) ==
    IF n = 0 THEN <<root, left>>
    ELSE LET trial == WAdd(WShl(root, 2), <<0, 1>>)
             l4 == WShl(left, 2)
         IN  IF WLess(l4, trial) THEN SqrtSteps(WShl(root, 1), l4, n - 1)
             ELSE SqrtSteps(WAdd(WShl(root, 1), <<0, 1>>), WSub(l4, trial), n - 1)

\* math.sqrt(n) of a natural number n
FSqrt(n) ==
    LET r0 == SqrtBetween(n, 0, 46340)
        steps == 54 - Bits(r0)
        first == SqrtSteps(<<0, r0>>, <<0, n - r0 * r0>>, steps \div 2)
        s == SqrtSteps(first[1], first[2], steps - (steps \div 2))
    IN  IF n = 0 THEN Zero ELSE Round(FALSE, s[1], -steps, s[2] # <<0, 0>>)

\* The square roots of the numbers lo..hi in a row.
RECURSIVE RootsBetween(_, _)
RootsBetween(lo, hi) ==
    IF lo = hi THEN <<FSqrt(lo)>>
    ELSE RootsBetween(lo, (lo + hi) \div 2) \o RootsBetween((lo + hi) \div 2 + 1, hi)

\* The square roots of the squared distances of the tile grids, found once.
KnownRoots == RootsBetween(1, 4 * (MaxRows * MaxRows + MaxCols * MaxCols))

\* Computes the eulerian distance. The operands are the doubled coordinates
\* of the two points (the centre of a room has half-integer coordinates):
\* the square root of a quarter of n is half of the square root of n.
eulerianDistance(x1, y1, x2, y2) ==
    LET n == (x1 - x2) * (x1 - x2) + (y1 - y2) * (y1 - y2)
    IN  FScale(IF n \in DOMAIN KnownRoots THEN KnownRoots[n] ELSE FSqrt(n), -1)

----------------------------------------------------------------------------
(* The rooms and corridors graph.                                          *)

\* "r" + str(i)
RoomId(i) == <<"r", i>>
\* The integer k as a node.
TileId(k) == <<"t", k>>

NodeIndex(Gr, id) ==
    FirstIndex({k \in 1..Len(Gr.nodes) : Gr.nodes[k][1] = id})

\* G.node[id]
NodeData(Gr, id) == Gr.nodes[NodeIndex(Gr, id)][2]

\* G.add_node(id, **data): a new node comes last; a node that exists keeps
\* its place and has its attributes updated.
add_node(Gr, id, data) ==
    LET k == NodeIndex(Gr, id)
    IN  IF k = 0 THEN [Gr EXCEPT !.nodes = Append(@, <<id, data>>)]
        ELSE [Gr EXCEPT !.nodes[k] = <<id, data @@ @[2]>>]

\* G.add_edge(a, b, weight = w)
add_edge(Gr, a, b, w) == [Gr EXCEPT !.edge = ({a, b} :> w) @@ @]

\* G[id]
Neighbours(Gr, id) == {b \in {n[1] : n \in Range(Gr.nodes)} : b # id /\ {id, b} \in DOMAIN Gr.edge}

\* G.degree
Degree(Gr, id) == Cardinality({e \in DOMAIN Gr.edge : id \in e})

\* The test that joins rooms[i] and rooms[j].
Joined(a, b) ==
    /\ ~(a.originX >= b.endX + 1 \/ b.originX >= a.endX + 1)
    /\ ~(a.originY >= b.endY + 1 \/ b.originY >= a.endY + 1)

\* The edge loop of getRoomsCorridorsGraph from the pair (i, j) on; i and j
\* are the 0-based indices of the source.
RECURSIVE AreaEdges(_, _, _, _)
AreaEdges(Gr, rs, i, j) ==
    IF i >= Len(rs) THEN Gr
    ELSE IF j >= Len(rs) THEN AreaEdges(Gr, rs, i + 1, i + 1)
    ELSE LET a == rs[i + 1]
             b == rs[j + 1]
             joined == j # i /\ Joined(a, b)
             weight == eulerianDistance(a.originX + a.endX, a.originY + a.endY,
                                        b.originX + b.endX, b.originY + b.endY)
         IN  AreaEdges(IF joined THEN add_edge(Gr, RoomId(i), RoomId(j), weight) ELSE Gr,
                       rs, i, j + 1)

getRoomsCorridorsGraph(rs) ==
    AreaEdges([nodes |-> [k \in 1..Len(rs) |-> <<RoomId(k - 1), rs[k]>>], edge |-> <<>>],
              rs, 0, 0)

\* The length through the node that has become final when it is less than
\* the length known, else the length known.
Nearer(through, known) == IF FLess(through, known) THEN through ELSE known

\* The path lengths d (d[k] is the length to Gr.nodes[k], Infinity when no
\* path is known) after the edges of the node u are followed to the nodes of
\* fringe, for the nodes 1..v.
RECURSIVE RelaxRow(_, _, _, _, _)
RelaxRow(Gr, d, u, fringe, v) ==
    IF v = 0 THEN <<>>
    ELSE LET e == {Gr.nodes[u][1], Gr.nodes[v][1]}
         IN  Append(RelaxRow(Gr, d, u, fringe, v - 1),
                    IF v \in fringe /\ e \in DOMAIN Gr.edge
                    THEN Nearer(FAdd(d[u], Gr.edge[e]), d[v]) ELSE d[v])

\* Dijkstra's algorithm: the nearest node of fringe is final and its edges
\* are followed, until no node of fringe is in reach.
RECURSIVE Relax(_, _, _)
Relax(Gr, d, fringe) ==
    LET reach == {u \in fringe : d[u] # Infinity}
        u == CHOOSE n \in reach : \A w \in reach : ~FLess(d[w], d[n])
    IN  IF reach = {} THEN d
        ELSE Relax(Gr, RelaxRow(Gr, d, u, fringe \ {u}, Len(d)), fringe \ {u})

\* nx.shortest_path_length(G, source, None, "weight"): the length of the
\* lightest path from source to every node, the weights added up from the
\* source on, Infinity for a node out of reach.
ShortestPathLengths(Gr, source) ==
    Relax(Gr, [k \in 1..Len(Gr.nodes) |-> IF Gr.nodes[k][1] = source THEN Zero ELSE Infinity],
          1..Len(Gr.nodes))

\* The length to Gr.nodes[k] among the lengths from a source, 0 with no path.
PathLength(lengths, k) == IF lengths[k] = Infinity THEN Zero ELSE lengths[k]

\* Computes the shortest path length between two nodes menaging the exception.
shortestPathLength(Gr, n1, n2) == PathLength(ShortestPathLengths(Gr, n1), NodeIndex(Gr, n2))

\* Computes the diameter length.
getDiameterLength(Gr) ==
    FMax(UNION {{l \in Range(ShortestPathLengths(Gr, n[1])) : l # Infinity} :
                n \in Range(Gr.nodes)})

\* maxDeg + minDeg of getNormalizedDegree
DegreeSum(Gr) ==
    LET degrees == {Degree(Gr, n[1]) : n \in Range(Gr.nodes)}
    IN  Max(degrees) + Min(degrees)

\* Computes the normalized degree: <<id, deg / (maxDeg + minDeg)>> for every
\* node.
getNormalizedDegree(Gr) ==
    [k \in 1..Len(Gr.nodes) |->
        <<Gr.nodes[k][1], FDiv(FromInt(Degree(Gr, Gr.nodes[k][1])), FromInt(DegreeSum(Gr)))>>]

\* The float literal 0.k
Tenths(k) == FDiv(FromInt(k), FromInt(10))

\* Tells how well a value fits in an interval.
intervalDistance(min, max, value) ==
    FAdd(FAbs(FSub(FAbs(min), FAbs(value))), FAbs(FSub(FAbs(max), FAbs(value))))

\* fitness of getNormalizedDegreeFit
DegreeFitness(normalizedDegree, minimum, maximum) ==
    [k \in DOMAIN normalizedDegree |->
        intervalDistance(minimum, maximum, normalizedDegree[k][2])]

\* maxFit - minFit of getNormalizedDegreeFit
FitnessSpread(normalizedDegree, minimum, maximum) ==
    LET fitness == Range(DegreeFitness(normalizedDegree, minimum, maximum))
    IN  FSub(FMax(fitness), FMin(fitness))

\* Computes how much each normalized degree fits the specified interval; the
\* fit of Gr.nodes[k] is the k-th of the result.
getNormalizedDegreeFit(normalizedDegree, minimum, maximum) ==
    LET fitness == DegreeFitness(normalizedDegree, minimum, maximum)
        minFit == FMin(Range(fitness))
        maxFit == FMax(Range(fitness))
    IN  [k \in DOMAIN fitness |->
            FSub(One, FDiv(FSub(fitness[k], minFit), FSub(maxFit, minFit)))]

----------------------------------------------------------------------------
(* The placement engine.                                                   *)

\* "resource" in data
IsResource(data) == "resource" \in DOMAIN data

\* The first operand of max(items, key = ...) with the greatest key.
RECURSIVE MaxIndexFrom(_, _, _)
MaxIndexFrom(keys, best, k) ==
    IF k > Len(keys) THEN best
    ELSE MaxIndexFrom(keys, IF FLess(keys[best], keys[k]) THEN k ELSE best, k + 1)

MaxIndex(keys) == MaxIndexFrom(keys, 1, 2)

\* redundancy = redundancy + 1 / count, from 0, once for each of n neighbours.
RECURSIVE Redundancy(_, _)
Redundancy(n, count) ==
    IF n = 0 THEN Zero
    ELSE FAdd(Redundancy(n - 1, count), FDiv(One, FromInt(count)))

\* The distance of a room fit: the least of the path lengths to the nodes
\* placed, over the diameter; 0 when that least is math.inf, no node being
\* one of the resources.
ResourceDistance(lengths, placed, diam) ==
    IF placed = {} THEN Zero
    ELSE FDiv(FMin({PathLength(lengths, k) : k \in placed}), diam)

\* get...RoomFit: how well the room fits for a resource. kinds are the
\* symbols whose distance counts, own the symbol whose presence is penalized
\* and count the requested number of it. The path lengths from the node are
\* found once for all the resources.
RoomFit(Gr, node, intervalFitness, diam, kinds, own, count) ==
    LET placed == {k \in 1..Len(Gr.nodes) :
                      IsResource(Gr.nodes[k][2]) /\ Gr.nodes[k][2].resource \in kinds}
        redundancy ==
            Cardinality({n \in Neighbours(Gr, node) :
                IsResource(NodeData(Gr, n)) /\ NodeData(Gr, n).resource = own})
    IN  FSub(FAdd(intervalFitness,
                  FScale(ResourceDistance(ShortestPathLengths(Gr, node), placed, diam), -2)),
             Redundancy(redundancy, count))

\* math.sqrt(math.pow(width, 2) + math.pow(height, 2))
MapDiagonal(m) == eulerianDistance(2 * Width(m), 2 * Height(m), 0, 0)

\* objectDistance of the tile fits.
ObjectDistance(x, y, placed, mapDiagonal) ==
    IF Len(placed) > 0
    THEN FDiv(FMin({eulerianDistance(2 * x, 2 * y, 2 * o[1], 2 * o[2]) : o \in Range(placed)}),
              mapDiagonal)
    ELSE Zero

\* wallDistance / (roomSize[0] / 2 + roomSize[1] / 2)
WallTerm(x, y, room) ==
    LET wallDistance == Min({Abs(room.originX - x), Abs(room.endX - x)})
                            + Min({Abs(room.originY - y), Abs(room.endY - y)})
    IN  FDiv(FromInt(wallDistance),
             FAdd(FScale(FromInt(room.endX - room.originX), -1),
                  FScale(FromInt(room.endY - room.originY), -1)))

\* visibilityMatrix[x][y]; when min was left at math.inf every value of the
\* matrix is NaN.
Visibility(vm, x, y) ==
    IF Tile(vm, x, y) = NaN THEN NotANumber
    ELSE FDiv(FromInt(Tile(vm, x, y)[1]), FromInt(Tile(vm, x, y)[2]))

\* Tells how well a tile fits for a spawn point.
getSpawnPointTileFit(x, y, room, visibility, placed, mapDiagonal) ==
    FAdd(FAdd(FSub(One, visibility), FScale(WallTerm(x, y, room), -1)),
         FScale(ObjectDistance(x, y, placed, mapDiagonal), -1))

\* Tells how well a tile fits for a medkit.
getMedkitTileFit(x, y, room, visibility, placed, mapDiagonal) ==
    LET reboundedVisibility == FSub(One, FScale(FAbs(FSub(FScale(One, -1), visibility)), 1))
    IN  FAdd(FAdd(reboundedVisibility, FScale(WallTerm(x, y, room), -2)),
             FScale(ObjectDistance(x, y, placed, mapDiagonal), -1))

\* Tells how well a tile fits for ammo.
getAmmoTileFit(x, y, room, visibility, placed, mapDiagonal) ==
    FAdd(FAdd(visibility, FScale(WallTerm(x, y, room), -2)),
         FScale(ObjectDistance(x, y, placed, mapDiagonal), -1))

\* The loops of populateMap in the order they run.
Loops == <<"spawnPoint", "medkit", "downAmmo", "upAmmo">>

\* What each loop uses: the units it places, the symbol it places, the
\* symbols its room fit measures the distance from, the degree fit, and 1 when
\* the tile ranges include endX and endY.
LoopOf(req, loop) ==
    CASE loop = "spawnPoint" ->
            [units |-> req.spawnPoint[2], symbol |-> req.spawnPoint[1],
             count |-> req.spawnPoint[2], kinds |-> {req.spawnPoint[1]},
             roomFit |-> "getSpawnPointRoomFit", tileFit |-> "getSpawnPointTileFit", last |-> 1]
      [] loop = "medkit" ->
            [units |-> req.medkit[2], symbol |-> req.medkit[1],
             count |-> req.medkit[2], kinds |-> {req.spawnPoint[1], req.medkit[1]},
             roomFit |-> "getMedkitRoomFit", tileFit |-> "getMedkitTileFit", last |-> 0]
      [] loop = "downAmmo" ->
            [units |-> req.ammo[2] \div 2, symbol |-> req.ammo[1],
             count |-> req.ammo[2], kinds |-> {req.ammo[1], req.medkit[1]},
             roomFit |-> "getAmmoRoomFit", tileFit |-> "getAmmoTileFit", last |-> 0]
      [] loop = "upAmmo" ->
            [units |-> (req.ammo[2] + 1) \div 2, symbol |-> req.ammo[1],
             count |-> req.ammo[2], kinds |-> {req.ammo[1], req.medkit[1]},
             roomFit |-> "getAmmoRoomFit", tileFit |-> "getAmmoTileFit", last |-> 0]

\* The position of the program when the k-th loop has placed done units.
RECURSIVE Position(_, _, _)
Position(req, k, done) ==
    IF k > Len(Loops) THEN [pc |-> "populated", unit |-> 0]
    ELSE IF done < LoopOf(req, Loops[k]).units THEN [pc |-> Loops[k], unit |-> done]
    ELSE Position(req, k + 1, 0)

LoopIndex(loop) == CHOOSE k \in 1..Len(Loops) : Loops[k] = loop

\* The resource nodes joined to the node id.
Carried(Gr, id) == {n \in Neighbours(Gr, id) : IsResource(NodeData(Gr, n))}

\* The area nodes that carry no resource.
CandidateRoomsWithoutResource(Gr) ==
    SelectSeq([k \in 1..Len(Gr.nodes) |-> Gr.nodes[k][1]],
              LAMBDA id : ~IsResource(NodeData(Gr, id)) /\ Carried(Gr, id) = {})

\* The area nodes: candidateRooms takes the nodes without "resource".
CandidateRooms(Gr) ==
    SelectSeq([k \in 1..Len(Gr.nodes) |-> Gr.nodes[k][1]],
              LAMBDA id : ~IsResource(NodeData(Gr, id)))

\* range(origin, end + last) x range(origin, end + last) in scan order.
CandidateTiles(room, last) ==
    LET xs == (room.endX + last) - room.originX
        ys == (room.endY + last) - room.originY
    IN  IF xs <= 0 \/ ys <= 0 THEN <<>>
        ELSE [k \in 1..(xs * ys) |->
                <<room.originX + ((k - 1) \div ys), room.originY + ((k - 1) % ys)>>]

TileFit(loop, x, y, room, visibility, placed, mapDiagonal) ==
    CASE loop = "spawnPoint" -> getSpawnPointTileFit(x, y, room, visibility, placed, mapDiagonal)
      [] loop = "medkit" -> getMedkitTileFit(x, y, room, visibility, placed, mapDiagonal)
      [] OTHER -> getAmmoTileFit(x, y, room, visibility, placed, mapDiagonal)

\* The edges addResource adds for the resource node id at (x, y), from the
\* k-th node on.
RECURSIVE ResourceEdges(_, _, _, _, _)
ResourceEdges(Gr, id, x, y, k) ==
    IF k > Len(Gr.nodes) THEN Gr
    ELSE LET node == Gr.nodes[k]
             inside == /\ "originX" \in DOMAIN node[2]
                       /\ x >= node[2].originX /\ x <= node[2].endX
                       /\ y >= node[2].originY /\ y <= node[2].endY
             weight == eulerianDistance(node[2].originX + node[2].endX,
                                        node[2].originY + node[2].endY, 2 * x, 2 * y)
         IN  ResourceEdges(IF inside THEN add_edge(Gr, node[1], id, weight) ELSE Gr,
                           id, x, y, k + 1)

\* Adds a resource to the map: the graph and the map it leaves. populateMap
\* has read visibilityMatrix[x][y] before the call, so that map[x][y] exists.
addResource(x, y, resource, Gr, m) ==
    LET id == TileId(subToInd(Width(m), x, y))
    IN  [roomGraph |-> ResourceEdges(add_node(Gr, id, [x |-> x, y |-> y, resource |-> resource]),
                                     id, x, y, 1),
         map |-> [m EXCEPT ![Index(x, Width(m))][Index(y, Height(m))] = resource]]

\* The fits of candidateRooms, from the k-th candidate on.
RECURSIVE RoomFits(_, _, _, _, _, _)
RoomFits(Gr, candidates, fit, diam, use, k) ==
    IF k > Len(candidates) THEN <<>>
    ELSE <<RoomFit(Gr, candidates[k], fit[NodeIndex(Gr, candidates[k])], diam,
                   use.kinds, use.symbol, use.count)>>
         \o RoomFits(Gr, candidates, fit, diam, use, k + 1)

\* The fits of candidateTiles, from the k-th candidate on.
RECURSIVE TileFits(_, _, _, _, _, _, _)
TileFits(loop, tiles, room, vm, placed, mapDiagonal, k) ==
    IF k > Len(tiles) THEN <<>>
    ELSE <<TileFit(loop, tiles[k][1], tiles[k][2], room,
                   Visibility(vm, tiles[k][1], tiles[k][2]), placed, mapDiagonal)>>
         \o TileFits(loop, tiles, room, vm, placed, mapDiagonal, k + 1)

(* Actions of the placement engine. *)

\* The program stops with the exception raised in the function.
Raise(exception, function) ==
    /\ pc' = exception
    /\ raisedIn' = function

\* The map without objects.
WithoutObjects(m) ==
    [x \in 1..Width(m) |-> [y \in 1..Height(m) |->
        IF m[x][y] # "w" /\ m[x][y] # "r" THEN "r" ELSE m[x][y]]]

\* The normalized degree intervals of the four loops, in tenths.
Intervals ==
    [spawnPoint |-> <<1, 3>>, medkit |-> <<3, 5>>, downAmmo |-> <<2, 4>>, upAmmo |-> <<8, 9>>]

\* populateMap up to "placedObjects = []": the objects are removed and the
\* variables are initialized, or one of the functions called raises.
PopulateInit ==
    /\ pc \in {"menu", "populated"}
    /\ LET cleared == WithoutObjects(map)
           graph == getRoomsCorridorsGraph(rooms)
           raw == RawVisibility(cleared)
           mm == MinMaxAfter(cleared, raw, Width(cleared) * Height(cleared))
           normalizedDegree == getNormalizedDegree(graph)
       IN  /\ map' = cleared
           /\ roomGraph' = graph
           /\ placedObjects' = <<>>
           /\ unit' = 0
           /\ IF mm.min # Inf /\ mm.max - mm.min = 0
              THEN /\ Raise("ZeroDivisionError", "getVisibilityMatrix")
                   /\ visibilityMap' = raw /\ visMin' = mm.min /\ visMax' = mm.max
                   /\ diameter' = Zero /\ degreeFit' = <<>>
              ELSE /\ visibilityMap' =
                        [x \in 1..Width(cleared) |-> [y \in 1..Height(cleared) |->
                            Rebound(raw[x][y], mm.min, mm.max)]]
                   /\ visMin' = mm.min /\ visMax' = mm.max
                   /\ IF Len(rooms) = 0
                      THEN /\ Raise("ValueError", "getDiameterLength")
                           /\ diameter' = Zero /\ degreeFit' = <<>>
                      ELSE /\ diameter' = getDiameterLength(graph)
                           /\ IF DegreeSum(graph) = 0
                              THEN /\ Raise("ZeroDivisionError", "getNormalizedDegree")
                                   /\ degreeFit' = <<>>
                              ELSE IF \E l \in DOMAIN Intervals :
                                        FitnessSpread(normalizedDegree, Tenths(Intervals[l][1]),
                                                      Tenths(Intervals[l][2])) = Zero
                              THEN /\ Raise("ZeroDivisionError", "getNormalizedDegreeFit")
                                   /\ degreeFit' = <<>>
                              ELSE /\ degreeFit' =
                                        [l \in DOMAIN Intervals |->
                                            getNormalizedDegreeFit(normalizedDegree,
                                                                   Tenths(Intervals[l][1]),
                                                                   Tenths(Intervals[l][2]))]
                                   /\ pc' = Position(request, 1, 0).pc
                                   /\ UNCHANGED raisedIn
    /\ UNCHANGED <<G, request, reduceVars>>

\* max(candidateRooms, key = lambda x: x[1])[0] in the loop: the first of the
\* candidate rooms with the greatest room fit.
bestRoomNode(loop) ==
    LET candidateRooms == CandidateRooms(roomGraph)
        roomFits == RoomFits(roomGraph, candidateRooms, degreeFit[loop], diameter,
                             LoopOf(request, loop), 1)
    IN  candidateRooms[MaxIndex(roomFits)]

\* bestRoom = roomGraph.node[...]
bestRoom(loop) == NodeData(roomGraph, bestRoomNode(loop))

\* candidateTiles of the loop, without their fits.
candidateTiles(loop) == CandidateTiles(bestRoom(loop), LoopOf(request, loop).last)

\* The first of the candidate tiles of the room with the greatest tile fit.
BestTileOf(loop, room, tiles) ==
    tiles[MaxIndex(TileFits(loop, tiles, room, visibilityMap, placedObjects,
                            MapDiagonal(map), 1))]

\* The best tile of the loop in the room.
BestTileIn(loop, room) ==
    BestTileOf(loop, room, CandidateTiles(room, LoopOf(request, loop).last))

\* bestTile = max(candidateTiles, key = lambda x: x[2]): the first of the
\* candidate tiles with the greatest tile fit.
bestTile(loop) == BestTileIn(loop, bestRoom(loop))

\* visibilityMatrix[x][y] of the candidate tile raises IndexError.
OffMatrix(vm, tile) == ~(HasIndex(tile[1], Width(vm)) /\ HasIndex(tile[2], Height(vm)))

\* The exception that ends an iteration of the loop whose best room is room
\* and whose candidate tiles are tiles. The tiles are scored in scan order,
\* visibilityMatrix[x][y] being read before the tile fit is called: the tile
\* fit divides by zero on the first tile, the only one, of a room of one tile.
FailureOn(loop, room, tiles) ==
    IF Len(tiles) = 0
    THEN <<"ValueError", "populateMap">>
    ELSE IF OffMatrix(visibilityMap, tiles[1])
    THEN <<"IndexError", "populateMap">>
    ELSE IF (room.endX - room.originX) + (room.endY - room.originY) = 0
    THEN <<"ZeroDivisionError", LoopOf(request, loop).tileFit>>
    ELSE IF \E k \in 1..Len(tiles) : OffMatrix(visibilityMap, tiles[k])
    THEN <<"IndexError", "populateMap">>
    ELSE <<>>

\* The exception that ends an iteration of the loop whose best room is room.
FailureIn(loop, room) ==
    FailureOn(loop, room, CandidateTiles(room, LoopOf(request, loop).last))

\* The exception that ends the iteration of the loop before its commit, if
\* any, and the function that raises it.
Failure(loop) ==
    IF diameter = Zero
    THEN <<"ZeroDivisionError", LoopOf(request, loop).roomFit>>
    ELSE FailureIn(loop, bestRoom(loop))

\* The program stops with the exception of the iteration.
Abort(failure) ==
    /\ Raise(failure[1], failure[2])
    /\ UNCHANGED <<map, roomGraph, placedObjects, unit>>

\* The loop goes on with its next unit, or the next loop starts.
NextUnit(position) ==
    /\ pc' = position.pc
    /\ unit' = position.unit
    /\ UNCHANGED raisedIn

\* addResource(bestTile[0], bestTile[1], ..., roomGraph, map) and
\* placedObjects.append(...), as added and object.
Commit(loop, added, object) ==
    /\ map' = added.map
    /\ roomGraph' = added.roomGraph
    /\ placedObjects' = Append(placedObjects, object)
    /\ NextUnit(Position(request, LoopIndex(loop), unit + 1))

\* The commit of the unit of the loop on the tile.
CommitOn(loop, tile, symbol) ==
    Commit(loop, addResource(tile[1], tile[2], symbol, roomGraph, map),
           <<tile[1], tile[2], symbol>>)

\* An iteration that ends with failure, the commit being skipped when there
\* is no candidate tile.
IterationSkipping(loop, failure) ==
    IF failure # <<>> /\ failure[1] = "ValueError"
    THEN /\ NextUnit(Position(request, LoopIndex(loop), unit + 1))
         /\ UNCHANGED <<map, roomGraph, placedObjects>>
    ELSE IF failure # <<>> THEN Abort(failure)
    ELSE CommitOn(loop, bestTile(loop), LoopOf(request, loop).symbol)

\* An iteration that skips its unit when there is no candidate tile and goes
\* on with the next unit.
PlaceSkipping(loop) ==
    /\ IterationSkipping(loop, Failure(loop))
    /\ UNCHANGED <<G, visibilityMap, visMin, visMax, diameter, degreeFit, request, reduceVars>>

\* An iteration that ends with failure: the exception, or the commit on the
\* best tile.
Iteration(loop, failure) ==
    IF failure # <<>> THEN Abort(failure)
    ELSE CommitOn(loop, bestTile(loop), LoopOf(request, loop).symbol)

\* One iteration of a placement loop: the best room, its best tile, and the
\* commit by addResource, or the exception that ends the program.
Place(loop) ==
    /\ Iteration(loop, Failure(loop))
    /\ UNCHANGED <<G, visibilityMap, visMin, visMax, diameter, degreeFit, request, reduceVars>>

\* for i in range(spawnPoint[1])
PlaceSpawnPoint ==
    /\ pc = "spawnPoint"
    /\ Place("spawnPoint")

\* for i in range(medkit[1])
PlaceMedkit ==
    /\ pc = "medkit"
    /\ Place("medkit")

\* for i in range(math.floor(ammo[1] / 2))
PlaceDownAmmo ==
    /\ pc = "downAmmo"
    /\ Place("downAmmo")

\* for i in range(math.ceil(ammo[1] / 2))
PlaceUpAmmo ==
    /\ pc = "upAmmo"
    /\ Place("upAmmo")

\* G = getRoomsCorridorsGraph(rooms), from the graph menu.
GetRoomsCorridorsGraph ==
    /\ pc = "menu"
    /\ roomGraph' = getRoomsCorridorsGraph(rooms)
    /\ pc' = "roomsGraph"
    /\ UNCHANGED <<placedObjects, diameter, degreeFit, request, unit, raisedIn, tileVars, reduceVars>>

(* Inputs of the placement engine. *)

\* The tile grids: the rows, the columns and the tiles that are walls.
PopulateGrids == {<<4, 4, {}>>, <<4, 4, {<<1, 1>>}>>, <<3, 4, {}>>}

\* The rooms readAB makes of these tokens, in lists of these lengths.
AreaTokens ==
    {RoomToken(0, 0, 2), RoomToken(1, 1, 2), RoomToken(2, 2, 2), RoomToken(1, 2, 2),
     RoomToken(0, 0, 1), RoomToken(2, 2, 3), CorridorToken(1, 0, 1)}
AreaCounts == 0..3
Areas == {ReadToken(t) : t \in AreaTokens}

\* The requests: the symbol and the count of spawn points, medkits and ammo.
Requests ==
    {[spawnPoint |-> <<"s", c[1]>>, medkit |-> <<"h", c[2]>>, ammo |-> <<"a", c[3]>>] :
        c \in {<<5, 4, 4>>, <<1, 1, 1>>, <<2, 1, 3>>}}

\* A room list as filesMenu leaves it: the rooms come before the corridors,
\* as readAB appends them, a scan of mergeRooms merges nothing and removeRooms
\* removes nothing.
Refined(rs) ==
    /\ \A i, j \in 1..Len(rs) : i < j => ~(rs[i].isCorridor /\ ~rs[j].isCorridor)
    /\ \A k \in 1..Len(rs) : Visit(rs, k).merged = 0
    /\ removeRooms(rs) = rs

\* The map file and the AB file are read independently of each other: the
\* rooms may reach beyond the grid. Their origins are natural numbers, readAB
\* taking them from digits.
InitPopulate ==
    /\ \E g \in PopulateGrids : map = Grid(g[1], g[2], g[3])
    /\ mapFile = map
    /\ \E n \in AreaCounts : \E rs \in [1..n -> Areas] :
            /\ Refined(rs)
            /\ rooms = rs
    /\ request \in Requests
    /\ abRooms = rooms
    /\ pc = "menu"
    /\ it = 1
    /\ mergedCount = 0
    /\ calls = 0
    /\ G = NoGraph
    /\ visibilityMap = <<>>
    /\ visMin = Inf
    /\ visMax = 0
    /\ roomGraph = NoRoomGraph
    /\ placedObjects = <<>>
    /\ diameter = Zero
    /\ degreeFit = <<>>
    /\ unit = 0
    /\ raisedIn = ""

NextPopulate ==
    \/ GetRoomsCorridorsGraph
    \/ PopulateInit
    \/ PlaceSpawnPoint
    \/ PlaceMedkit
    \/ PlaceDownAmmo
    \/ PlaceUpAmmo

SpecPopulate == InitPopulate /\ [][NextPopulate]_vars

(* Properties of the rooms and corridors graph and of the placement engine. *)

\* The rectangles overlap or touch: on neither axis is there a tile between them.
OverlapOrTouch(a, b) ==
    /\ a.originX <= b.endX + 1 /\ b.originX <= a.endX + 1
    /\ a.originY <= b.endY + 1 /\ b.originY <= a.endY + 1

\* The area nodes of rooms[i] and rooms[j] are joined by an edge.
AreaEdge(Gr, i, j) == {RoomId(i - 1), RoomId(j - 1)} \in DOMAIN Gr.edge

\* C8: in the graph built by getRoomsCorridorsGraph two distinct area nodes
\* are joined by an edge if and only if their rectangles overlap or touch:
\* rectangles that share a tile are joined, rectangles that abut on one axis
\* and overlap or abut on the other are joined, rectangles with a gap are not.
C8_EdgeIffOverlapOrTouch ==
    pc = "roomsGraph" =>
        \A i \in 1..Len(rooms), j \in 1..Len(rooms) :
            i # j => (AreaEdge(roomGraph, i, j) <=> OverlapOrTouch(rooms[i], rooms[j]))

\* populateMap has called getNormalizedDegreeFit and has placed nothing yet.
DegreeFitCalled ==
    /\ pc \notin {"menu", "roomsGraph"}
    /\ raisedIn \notin {"getVisibilityMatrix", "getDiameterLength", "getNormalizedDegree"}
    /\ placedObjects = <<>>

\* C10: when every node has the same interval distance to the interval,
\* getNormalizedDegreeFit does not fail with a division by zero and gives
\* every node the fit 1.0; otherwise the node with the smallest distance gets
\* 1.0 and the node with the largest distance gets 0.0.
C10_EqualDistancesFitOne ==
    DegreeFitCalled =>
        /\ raisedIn # "getNormalizedDegreeFit"
        /\ \A l \in DOMAIN Intervals :
              LET fitness == DegreeFitness(getNormalizedDegree(roomGraph),
                                           Tenths(Intervals[l][1]), Tenths(Intervals[l][2]))
                  minFit == FMin(Range(fitness))
                  maxFit == FMax(Range(fitness))
              IN  \A k \in DOMAIN fitness :
                    /\ fitness[k] = minFit => degreeFit[l][k] = One
                    /\ (fitness[k] = maxFit /\ fitness[k] # minFit) => degreeFit[l][k] = Zero

\* The tiles of the grid that hold the symbol.
Holding(m, symbol) == {t \in Tiles(m) : Tile(m, t[1], t[2]) = symbol}

\* C1: after populateMap has run to completion the tile grid holds exactly
\* the requested number of spawn symbols, of medkit symbols and of ammo
\* symbols, and no two entries of placedObjects have the same coordinates.
C1_RequestedCountsOnDistinctTiles ==
    pc = "populated" =>
        /\ Cardinality(Holding(map, request.spawnPoint[1])) = request.spawnPoint[2]
        /\ Cardinality(Holding(map, request.medkit[1])) = request.medkit[2]
        /\ Cardinality(Holding(map, request.ammo[1])) = request.ammo[2]
        /\ \A i \in DOMAIN placedObjects, j \in DOMAIN placedObjects :
              i # j => <<placedObjects[i][1], placedObjects[i][2]>>
                         # <<placedObjects[j][1], placedObjects[j][2]>>

\* A placement loop is about to select a room and a tile for its next unit.
Placing == pc \in Range(Loops)

\* The program has stopped with an exception.
Aborted == pc \in {"ValueError", "ZeroDivisionError", "IndexError"}

\* C11: when the candidate rooms or the candidate tiles of a unit are empty,
\* populateMap stops with an exception at that unit and commits nothing for
\* it, and once it has stopped nothing more is committed: the tile grid, the
\* rooms graph and placedObjects stay as the commits before the failure left
\* them.
C11_EmptyCandidatesAbort ==
    [][/\ (/\ Placing
            /\ \/ Len(CandidateRooms(roomGraph)) = 0
               \/ (diameter # Zero /\ Len(candidateTiles(pc)) = 0))
           => (/\ pc' = "ValueError"
               /\ map' = map /\ roomGraph' = roomGraph /\ placedObjects' = placedObjects)
       /\ Aborted => (pc' = pc /\ map' = map /\ roomGraph' = roomGraph
                        /\ placedObjects' = placedObjects)]_vars

\* populateMap has stopped on a unit with no candidate tile after it had
\* committed units, which the grid and placedObjects still hold.
C11_Witness ==
    /\ pc = "ValueError" /\ raisedIn = "populateMap"
    /\ Len(placedObjects) > 0
    /\ \A k \in DOMAIN placedObjects :
          Tile(map, placedObjects[k][1], placedObjects[k][2]) \in {"s", "h", "a"}

\* The area nodes of a rooms graph and the edges between them.
AreaPart(Gr) ==
    [nodes |-> SelectSeq(Gr.nodes, LAMBDA n : ~IsResource(n[2])),
     edge |-> [e \in {d \in DOMAIN Gr.edge : \A id \in d : id[1] = "r"} |-> Gr.edge[e]]]

\* The resource nodes of a rooms graph, each with its coordinates and symbol.
ResourceNodes(Gr) == {n \in Range(Gr.nodes) : IsResource(n[2])}

\* C12: during populateMap the rooms graph and placedObjects only grow: after
\* every commit the area nodes, their attributes and the edges between them
\* are as getRoomsCorridorsGraph built them, every resource node of an earlier
\* commit is still there with the same coordinates and the same symbol, and
\* the earlier entries of placedObjects are unchanged.
C12_GraphAndObjectsOnlyGrow ==
    [][Placing
          => /\ AreaPart(roomGraph') = getRoomsCorridorsGraph(rooms)
             /\ ResourceNodes(roomGraph) \subseteq ResourceNodes(roomGraph')
             /\ Len(placedObjects') >= Len(placedObjects)
             /\ SubSeq(placedObjects', 1, Len(placedObjects)) = placedObjects]_vars

\* C14 as claimed: the room selected for a unit is an area node that carries
\* no resource yet, so no room is selected for two units of one run.
C14_SelectedRoomCarriesNoResource ==
    (Placing /\ Failure(pc) = <<>>) => Carried(roomGraph, bestRoomNode(pc)) = {}

\* C14 as amended: in every room selection the candidates are all the area
\* nodes of the rooms graph in node order, whether they carry a resource or
\* not; only the resource nodes are left out.
C14_CandidatesAreAllAreaNodes ==
    Placing => CandidateRooms(roomGraph) = [k \in 1..Len(rooms) |-> RoomId(k - 1)]

\* A unit is about to be committed in a room that carries a resource while
\* another room carries none.
C14_Witness ==
    /\ Placing /\ Failure(pc) = <<>>
    /\ Carried(roomGraph, bestRoomNode(pc)) # {}
    /\ \E k \in 1..Len(rooms) : Carried(roomGraph, RoomId(k - 1)) = {}

\* C16: for a unit of any kind (spawn point, medkit, ammo of either half) the
\* candidate tiles are all the tiles of the selected room's rectangle, x in
\* originX..endX and y in originY..endY, the tiles of the endX column and of
\* the endY row among them, and the chosen tile is one of them.
C16_CandidateTilesAreTheRectangle ==
    (Placing /\ diameter # Zero)
        => /\ Range(candidateTiles(pc)) = Cells(bestRoom(pc))
           /\ Failure(pc) = <<>> => bestTile(pc) \in Cells(bestRoom(pc))

\* C19: populateMap changes only floor tiles: a tile that is a wall before a
\* step of populateMap is a wall after it, whatever the rooms cover, and every
\* resource is committed to a tile that held "r" at the moment of the commit,
\* neither a wall nor an earlier resource.
C19_OnlyFloorTilesChange ==
    [][/\ \A t \in Tiles(map) : Tile(map, t[1], t[2]) = "w" => Tile(map', t[1], t[2]) = "w"
       /\ (Placing /\ Len(placedObjects') > Len(placedObjects))
             => Tile(map, placedObjects'[Len(placedObjects')][1],
                          placedObjects'[Len(placedObjects')][2]) = "r"]_vars

====
